---------------------------- MODULE Spec2Model ----------------------------
(***************************************************************************)
(* A model of AccessApprovalGrpcTransport, the gRPC transport of the       *)
(* Access Approval client                                                  *)
(* (google/cloud/accessapproval_v1/services/access_approval/transports/    *)
(* grpc.py): the constructor's choice between an injected channel, a       *)
(* mutual-TLS channel and a lazily created one, the grpc_channel property, *)
(* and the seven stub accessors that fill the _stubs table on demand.      *)
(*                                                                         *)
(* Python values: None is the empty tuple and a present value v is <<v>>   *)
(* wherever an argument or attribute may be absent; credentials, the       *)
(* credentials file and the quota project are strings, "None" being None.  *)
(* A host or endpoint string is the sequence of its tokens, ":" being a    *)
(* token of its own, so that  ":" in s  and  s + ":443"  are computed.     *)
(***************************************************************************)
EXTENDS Integers, Sequences, FiniteSets, TLC

\* ------------------------------------------------------------------ bounds

\* Threads that read the transport's properties concurrently.
NumCallers == 2
\* Property reads each concurrent caller starts.
MaxReads == 1
\* Longest api_mtls_endpoint string tried, in tokens.
MaxLen == 1

\* --------------------------------------------------------------- Python values

None == <<>>

Some(v) == <<v>>

\* The tokens endpoint strings are built from.
Alphabet == {"mtls.googleapis.com", ":"}

\* Every string of at most n tokens.
Strings(n) == UNION {[1..k -> Alphabet] : k \in 0..n}

\* ":" in s
HasColon(s) == \E i \in 1..Len(s) : s[i] = ":"

\* bool(o) for an optional string: None and "" are false.
TruthyStr(o) == o # None /\ o[1] # <<>>

\* bool(c) for the credentials argument: None and False are false.
TruthyCred(c) == c \notin {"None", "False"}

\* host: str = "accessapproval.googleapis.com"
DefaultHost == <<"accessapproval.googleapis.com">>

\* AccessApprovalTransport.AUTH_SCOPES, the default scope list.
AUTH_SCOPES == <<"https://www.googleapis.com/auth/cloud-platform">>

\* scopes or self.AUTH_SCOPES
ScopesOr(scopes) == IF scopes = None \/ scopes[1] = <<>> THEN AUTH_SCOPES ELSE scopes[1]

\* The channel object a caller injects; created channels are numbered from 1.
InjectedChannel == [id |-> 0]

\* The keyword arguments a constructor call may carry.
CtorArgs ==
  [ host : {DefaultHost},
    credentials : {"None", "explicit"},
    credentials_file : {"None", "creds.json"},
    scopes : {None, Some(<<"custom.scope">>)},
    channel : {None, Some(InjectedChannel)},
    api_mtls_endpoint : {None} \cup {Some(s) : s \in Strings(MaxLen)},
    client_cert_source : {"None", "callback"},
    quota_project_id : {"None", "proj"} ]

\* What the environment answers during one constructor call: whether
\* ambient credentials are discoverable and whether the default client
\* SSL credentials can be assembled.
Envs == [ambient : BOOLEAN, ssl : BOOLEAN]


\* ------------------------------------------------------------------- state

VARIABLES
  phase,             \* "new": the constructor is about to run; "ready"; "failed"
  args,              \* the keyword arguments of the constructor call
  error,             \* the exception the constructor raised, or "none"
  self_grpc_channel, \* self._grpc_channel: None while the attribute is unset
  self_stubs,        \* self._stubs: accessor name -> bound callable
  self_host,         \* self._host, saved by the base constructor
  self_credentials,  \* self._credentials, saved by the base constructor
  pc,                \* where each caller stands in the property it is reading
  cur,               \* the property each caller is reading
  loc,               \* the channel self.grpc_channel handed to each caller
  reads,             \* property reads each caller has started
  authLog,           \* calls of auth.default: the arguments of each
  loadLog,           \* calls of auth.load_credentials_from_file
  baseLog,           \* calls of the base constructor: the arguments of each
  createLog,         \* calls of create_channel: the arguments of each
  certCalls,         \* calls of client_cert_source
  unaryCalls,        \* calls of channel.unary_unary per accessor
  returned,          \* the callables each accessor has returned so far
  chanReturned       \* the channels the grpc_channel property has returned

vars == <<phase, args, error, self_grpc_channel, self_stubs, self_host,
          self_credentials, pc, cur, loc, reads, authLog, loadLog, baseLog,
          createLog, certCalls, unaryCalls, returned, chanReturned>>

facade == <<self_grpc_channel, self_stubs, self_host, self_credentials>>

callerVars == <<pc, cur, loc, reads>>

Callers == 1..NumCallers

\* The stub accessors of the transport, by property name.
Operations ==
  { "list_approval_requests", "get_approval_request",
    "approve_approval_request", "dismiss_approval_request",
    "get_access_approval_settings", "update_access_approval_settings",
    "delete_access_approval_settings" }

EmptyStubs == [op \in {} |-> None]

\* ------------------------------------------------------------- constructor

\* MtlsHost with the port test lost: ":443" is appended to every endpoint.
MtlsHostAlwaysAppends(endpoint) == endpoint \o <<":", "443">>

\* api_mtls_endpoint if ":" in api_mtls_endpoint else api_mtls_endpoint + ":443"
MtlsHost(endpoint) ==
  IF HasColon(endpoint) THEN endpoint ELSE endpoint \o <<":", "443">>

\* create_channel: scopes default to AUTH_SCOPES and the call is handed to
\* grpc_helpers.create_channel, which raises DuplicateCredentialArgs when
\* both credentials and credentials_file are passed.
create_channel(host, credentials, credentials_file, scopes, quota_project_id, ssl_credentials) ==
  [ error |-> IF TruthyCred(credentials) /\ credentials_file # "None"
              THEN "DuplicateCredentialArgs" ELSE "none",
    call |-> [ host |-> host,
               credentials |-> credentials,
               credentials_file |-> credentials_file,
               scopes |-> ScopesOr(scopes),
               quota_project_id |-> quota_project_id,
               ssl_credentials |-> ssl_credentials ] ]

\* ChannelBranch without  credentials = False.
ChannelBranchKeepsCredentials(a) ==
  [ error |-> "none", host |-> a.host, credentials |-> a.credentials,
    channel |-> a.channel, auth |-> <<>>, create |-> <<>>, cert |-> 0 ]

\* if channel:  the credentials are dropped and the channel is kept.
ChannelBranch(a) ==
  [ error |-> "none", host |-> a.host, credentials |-> "False",
    channel |-> a.channel, auth |-> <<>>, create |-> <<>>, cert |-> 0 ]

\* elif api_mtls_endpoint:  the host is rewritten, missing credentials are
\* looked up in the environment with the default scopes, the SSL credentials
\* come from client_cert_source or from the platform, and the channel is
\* created at once.  Each of the three calls may raise.
MtlsBranch(a, env) ==
  LET host == MtlsHost(a.api_mtls_endpoint[1])
      lookup == a.credentials = "None"
      auth == IF lookup
              THEN <<[ scopes |-> AUTH_SCOPES,
                       quota_project_id |-> a.quota_project_id ]>>
              ELSE <<>>
      credentials == IF lookup THEN "ambient" ELSE a.credentials
      cert == IF a.client_cert_source # "None" THEN 1 ELSE 0
      ssl == IF cert = 1 THEN "client_cert" ELSE "default_ssl"
      made == create_channel(host, credentials, a.credentials_file,
                             Some(ScopesOr(a.scopes)), a.quota_project_id, ssl)
      result(e, ch, c, m) ==
        [ error |-> e, host |-> host, credentials |-> credentials,
          channel |-> ch, auth |-> auth, create |-> m, cert |-> c ]
  IN  IF lookup /\ ~env.ambient
      THEN result("DefaultCredentialsError", None, 0, <<>>)
      ELSE IF cert = 0 /\ ~env.ssl
      THEN result("MutualTLSChannelError", None, 0, <<>>)
      ELSE IF made.error # "none"
      THEN result(made.error, None, cert, <<made.call>>)
      ELSE result("none", Some([id |-> 1]), cert, <<made.call>>)

\* Neither: self._grpc_channel stays unset until grpc_channel is first read.
LazyBranch(a) ==
  [ error |-> "none", host |-> a.host, credentials |-> a.credentials,
    channel |-> None, auth |-> <<>>, create |-> <<>>, cert |-> 0 ]

\* InitBranch with the two tests in the other order: a mutual-TLS endpoint
\* wins over an injected channel.
InitBranchEndpointFirst(a, env) ==
  IF TruthyStr(a.api_mtls_endpoint) THEN MtlsBranch(a, env)
  ELSE IF a.channel # None THEN ChannelBranch(a)
  ELSE LazyBranch(a)

\* The constructor up to the base constructor's call.
InitBranch(a, env) ==
  IF a.channel # None THEN ChannelBranch(a)
  ELSE IF TruthyStr(a.api_mtls_endpoint) THEN MtlsBranch(a, env)
  ELSE LazyBranch(a)

\* The base constructor (AccessApprovalTransport.__init__), the credential
\* resolver: it saves the host and one credential handle.  Resolution is
\* skipped for credentials=False (a channel was injected); both an explicit
\* handle and a file are a configuration error; a file is loaded; with
\* neither, the ambient credentials are looked up for the requested scopes.
BaseInit(host, credentials, credentials_file, scopes, quota_project_id, env) ==
  LET request == [scopes |-> scopes, quota_project_id |-> quota_project_id]
      done(e, c, a, l) ==
        [error |-> e, host |-> host, credentials |-> c, auth |-> a, load |-> l]
  IN  IF credentials = "False"
      THEN done("none", credentials, <<>>, <<>>)
      ELSE IF TruthyCred(credentials) /\ credentials_file # "None"
      THEN done("DuplicateCredentialArgs", credentials, <<>>, <<>>)
      ELSE IF credentials_file # "None"
      THEN done("none", "file", <<>>, <<request>>)
      ELSE IF credentials = "None"
      THEN IF env.ambient
           THEN done("none", "ambient", <<request>>, <<>>)
           ELSE done("DefaultCredentialsError", credentials, <<request>>, <<>>)
      ELSE done("none", credentials, <<>>, <<>>)

\* AccessApprovalGrpcTransport.__init__, whole: the branch, self._stubs = {},
\* then the base constructor with host, credentials, credentials_file and
\* scopes or self.AUTH_SCOPES.
Construct ==
  /\ phase = "new"
  /\ \E env \in Envs :
       LET b == InitBranch(args, env)
           s == BaseInit(b.host, b.credentials, args.credentials_file,
                         ScopesOr(args.scopes), args.quota_project_id, env)
       IN  IF b.error # "none"
           THEN /\ phase' = "failed"
                /\ error' = b.error
                /\ authLog' = b.auth
                /\ createLog' = b.create
                /\ certCalls' = b.cert
                /\ UNCHANGED <<facade, loadLog, baseLog>>
           ELSE /\ authLog' = b.auth \o s.auth
                /\ loadLog' = s.load
                /\ baseLog' = <<[ host |-> b.host,
                                  credentials |-> b.credentials,
                                  credentials_file |-> args.credentials_file,
                                  scopes |-> ScopesOr(args.scopes),
                                  quota_project_id |-> args.quota_project_id ]>>
                /\ createLog' = b.create
                /\ certCalls' = b.cert
                /\ IF s.error # "none"
                   THEN /\ phase' = "failed"
                        /\ error' = s.error
                        /\ UNCHANGED facade
                   ELSE /\ phase' = "ready"
                        /\ error' = "none"
                        /\ self_grpc_channel' = b.channel
                        /\ self_stubs' = EmptyStubs
                        /\ self_host' = s.host
                        /\ self_credentials' = s.credentials
  /\ UNCHANGED <<args, callerVars, unaryCalls, returned, chanReturned>>


\* ---------------------------------------------------------- the properties

\* The service every method path names.
ServicePath == <<"/", "google.cloud.accessapproval.v1", ".", "AccessApproval", "/">>

\* MethodPath with a pasted literal left unedited: dismiss_approval_request
\* names the approve operation.
MethodPathPasted(op) ==
  <<"/", "google.cloud.accessapproval.v1", ".", "AccessApproval", "/">> \o
  CASE op = "list_approval_requests" -> <<"List", "Approval", "Requests">>
    [] op = "get_approval_request" -> <<"Get", "Approval", "Request">>
    [] op = "approve_approval_request" -> <<"Approve", "Approval", "Request">>
    [] op = "dismiss_approval_request" -> <<"Approve", "Approval", "Request">>
    [] op = "get_access_approval_settings" -> <<"Get", "Access", "Approval", "Settings">>
    [] op = "update_access_approval_settings" -> <<"Update", "Access", "Approval", "Settings">>
    [] op = "delete_access_approval_settings" -> <<"Delete", "Access", "Approval", "Settings">>

\* The method path literal each accessor hands to unary_unary: the service
\* path, then the operation name, split at its capitals.
MethodPath(op) ==
  ServicePath \o
  CASE op = "list_approval_requests" -> <<"List", "Approval", "Requests">>
    [] op = "get_approval_request" -> <<"Get", "Approval", "Request">>
    [] op = "approve_approval_request" -> <<"Approve", "Approval", "Request">>
    [] op = "dismiss_approval_request" -> <<"Dismiss", "Approval", "Request">>
    [] op = "get_access_approval_settings" -> <<"Get", "Access", "Approval", "Settings">>
    [] op = "update_access_approval_settings" -> <<"Update", "Access", "Approval", "Settings">>
    [] op = "delete_access_approval_settings" -> <<"Delete", "Access", "Approval", "Settings">>

\* request_serializer of each accessor.
RequestSerializer(op) ==
  CASE op = "list_approval_requests" -> "accessapproval.ListApprovalRequestsMessage.serialize"
    [] op = "get_approval_request" -> "accessapproval.GetApprovalRequestMessage.serialize"
    [] op = "approve_approval_request" -> "accessapproval.ApproveApprovalRequestMessage.serialize"
    [] op = "dismiss_approval_request" -> "accessapproval.DismissApprovalRequestMessage.serialize"
    [] op = "get_access_approval_settings" -> "accessapproval.GetAccessApprovalSettingsMessage.serialize"
    [] op = "update_access_approval_settings" -> "accessapproval.UpdateAccessApprovalSettingsMessage.serialize"
    [] op = "delete_access_approval_settings" -> "accessapproval.DeleteAccessApprovalSettingsMessage.serialize"

\* response_deserializer of each accessor.
ResponseDeserializer(op) ==
  CASE op = "list_approval_requests" -> "accessapproval.ListApprovalRequestsResponse.deserialize"
    [] op = "get_approval_request" -> "accessapproval.ApprovalRequest.deserialize"
    [] op = "approve_approval_request" -> "accessapproval.ApprovalRequest.deserialize"
    [] op = "dismiss_approval_request" -> "accessapproval.ApprovalRequest.deserialize"
    [] op = "get_access_approval_settings" -> "accessapproval.AccessApprovalSettings.deserialize"
    [] op = "update_access_approval_settings" -> "accessapproval.AccessApprovalSettings.deserialize"
    [] op = "delete_access_approval_settings" -> "empty.Empty.FromString"

\* channel.unary_unary(path, request_serializer=..., response_deserializer=...):
\* a new callable bound to the channel; n tells the objects of one accessor
\* apart.
unary_unary(channel, op, n) ==
  [ channel |-> channel,
    path |-> MethodPath(op),
    request_serializer |-> RequestSerializer(op),
    response_deserializer |-> ResponseDeserializer(op),
    id |-> n ]

\* self._stubs[op] = stub
Store(stubs, op, stub) ==
  [o \in DOMAIN stubs \cup {op} |-> IF o = op THEN stub ELSE stubs[o]]

\* Read without the  not in self._stubs  test: every read binds a new stub.
ReadAlwaysBinds(t, op) ==
  /\ phase = "ready"
  /\ pc[t] = "idle"
  /\ cur' = [cur EXCEPT ![t] = op]
  /\ pc' = [pc EXCEPT ![t] = "chan"]
  /\ UNCHANGED <<phase, args, error, facade, loc, authLog, loadLog, baseLog, createLog,
                 certCalls, unaryCalls, returned, chanReturned>>

\* A caller starts reading accessor op:  if op not in self._stubs  sends it
\* to self.grpc_channel, and otherwise straight to the return.
Read(t, op) ==
  /\ phase = "ready"
  /\ pc[t] = "idle"
  /\ cur' = [cur EXCEPT ![t] = op]
  /\ pc' = [pc EXCEPT ![t] = IF op \notin DOMAIN self_stubs THEN "chan" ELSE "ret"]
  /\ UNCHANGED <<phase, args, error, facade, loc, authLog, loadLog, baseLog, createLog,
                 certCalls, unaryCalls, returned, chanReturned>>

list_approval_requests(t) == Read(t, "list_approval_requests")

get_approval_request(t) == Read(t, "get_approval_request")

approve_approval_request(t) == Read(t, "approve_approval_request")

dismiss_approval_request(t) == Read(t, "dismiss_approval_request")

get_access_approval_settings(t) == Read(t, "get_access_approval_settings")

update_access_approval_settings(t) == Read(t, "update_access_approval_settings")

delete_access_approval_settings(t) == Read(t, "delete_access_approval_settings")

\* A caller starts reading the grpc_channel property itself.
grpc_channel(t) ==
  /\ phase = "ready"
  /\ pc[t] = "idle"
  /\ cur' = [cur EXCEPT ![t] = "grpc_channel"]
  /\ pc' = [pc EXCEPT ![t] = "chan"]
  /\ UNCHANGED <<phase, args, error, facade, loc, authLog, loadLog, baseLog, createLog,
                 certCalls, unaryCalls, returned, chanReturned>>

\* ChannelCheck without the hasattr test: every read creates a channel.
ChannelCheckAlwaysCreates(t) ==
  /\ pc[t] = "chan"
  /\ pc' = [pc EXCEPT ![t] = "create"]
  /\ UNCHANGED <<phase, args, error, facade, cur, loc, reads, authLog, loadLog,
                 baseLog, createLog, certCalls, unaryCalls, returned, chanReturned>>

\* if not hasattr(self, "_grpc_channel")
ChannelCheck(t) ==
  /\ pc[t] = "chan"
  /\ pc' = [pc EXCEPT ![t] = IF self_grpc_channel = None THEN "create" ELSE "chanret"]
  /\ UNCHANGED <<phase, args, error, facade, cur, loc, reads, authLog, loadLog,
                 baseLog, createLog, certCalls, unaryCalls, returned, chanReturned>>

\* ChannelCreate with  credentials=self._credentials  left out.
ChannelCreateNoCredentials(t) ==
  /\ pc[t] = "create"
  /\ LET made == create_channel(self_host, "None", "None", None, "None", "None")
     IN  /\ createLog' = Append(createLog, made.call)
         /\ self_grpc_channel' = Some([id |-> Len(createLog) + 1])
  /\ pc' = [pc EXCEPT ![t] = "chanret"]
  /\ UNCHANGED <<phase, args, error, self_stubs, self_host, self_credentials,
                 cur, loc, reads, authLog, loadLog, baseLog, certCalls, unaryCalls,
                 returned, chanReturned>>

\* self._grpc_channel = self.create_channel(self._host, credentials=self._credentials)
ChannelCreate(t) ==
  /\ pc[t] = "create"
  /\ LET made == create_channel(self_host, self_credentials, "None", None, "None", "None")
     IN  /\ createLog' = Append(createLog, made.call)
         /\ self_grpc_channel' = Some([id |-> Len(createLog) + 1])
  /\ pc' = [pc EXCEPT ![t] = "chanret"]
  /\ UNCHANGED <<phase, args, error, self_stubs, self_host, self_credentials,
                 cur, loc, reads, authLog, loadLog, baseLog, certCalls, unaryCalls,
                 returned, chanReturned>>

\* return self._grpc_channel: to the caller that read the property, or to
\* the accessor that is about to bind its stub.
ChannelReturn(t) ==
  /\ pc[t] = "chanret"
  /\ IF cur[t] = "grpc_channel"
     THEN /\ chanReturned' = chanReturned \cup {self_grpc_channel[1]}
          /\ pc' = [pc EXCEPT ![t] = "idle"]
          /\ UNCHANGED loc
     ELSE /\ loc' = [loc EXCEPT ![t] = self_grpc_channel]
          /\ pc' = [pc EXCEPT ![t] = "bind"]
          /\ UNCHANGED chanReturned
  /\ UNCHANGED <<phase, args, error, facade, cur, reads, authLog, loadLog,
                 baseLog, createLog, certCalls, unaryCalls, returned>>

\* self._stubs[op] = self.grpc_channel.unary_unary(...)
Bind(t) ==
  /\ pc[t] = "bind"
  /\ self_stubs' = Store(self_stubs, cur[t],
                         unary_unary(loc[t][1], cur[t], unaryCalls[cur[t]] + 1))
  /\ unaryCalls' = [unaryCalls EXCEPT ![cur[t]] = @ + 1]
  /\ loc' = [loc EXCEPT ![t] = None]
  /\ pc' = [pc EXCEPT ![t] = "ret"]
  /\ UNCHANGED <<phase, args, error, self_grpc_channel, self_host,
                 self_credentials, cur, reads, authLog, loadLog, baseLog, createLog,
                 certCalls, returned, chanReturned>>

\* Return that takes the entry out of the table:  return self._stubs.pop(op)
ReturnEvicts(t) ==
  /\ pc[t] = "ret"
  /\ cur[t] \in DOMAIN self_stubs
  /\ returned' = [returned EXCEPT ![cur[t]] = @ \cup {self_stubs[cur[t]]}]
  /\ self_stubs' = [o \in DOMAIN self_stubs \ {cur[t]} |-> self_stubs[o]]
  /\ pc' = [pc EXCEPT ![t] = "idle"]
  /\ UNCHANGED <<phase, args, error, self_grpc_channel, self_host,
                 self_credentials, cur, loc, reads, authLog, loadLog, baseLog,
                 createLog, certCalls, unaryCalls, chanReturned>>

\* return self._stubs[op]
Return(t) ==
  /\ pc[t] = "ret"
  /\ returned' = [returned EXCEPT ![cur[t]] = @ \cup {self_stubs[cur[t]]}]
  /\ pc' = [pc EXCEPT ![t] = "idle"]
  /\ UNCHANGED <<phase, args, error, facade, cur, loc, reads, authLog, loadLog,
                 baseLog, createLog, certCalls, unaryCalls, chanReturned>>

\* One step of caller t inside the property it is reading.
Step(t) ==
  \/ ChannelCheck(t)
  \/ ChannelCreate(t)
  \/ ChannelReturn(t)
  \/ Bind(t)
  \/ Return(t)

\* Caller t starts reading one of the properties.
Start(t) ==
  \/ list_approval_requests(t)
  \/ get_approval_request(t)
  \/ approve_approval_request(t)
  \/ dismiss_approval_request(t)
  \/ get_access_approval_settings(t)
  \/ update_access_approval_settings(t)
  \/ delete_access_approval_settings(t)
  \/ grpc_channel(t)

\* ---------------------------------------------------------- specifications

Init ==
  /\ phase = "new"
  /\ args \in CtorArgs
  /\ error = "none"
  /\ self_grpc_channel = None
  /\ self_stubs = EmptyStubs
  /\ self_host = <<>>
  /\ self_credentials = "None"
  /\ pc = [t \in Callers |-> "idle"]
  /\ cur = [t \in Callers |-> "-"]
  /\ loc = [t \in Callers |-> None]
  /\ reads = [t \in Callers |-> 0]
  /\ authLog = <<>>
  /\ loadLog = <<>>
  /\ baseLog = <<>>
  /\ createLog = <<>>
  /\ certCalls = 0
  /\ unaryCalls = [op \in Operations |-> 0]
  /\ returned = [op \in Operations |-> {}]
  /\ chanReturned = {}

\* Several callers share the transport; each starts at most MaxReads reads,
\* and their steps interleave freely.
Next ==
  \/ Construct
  \/ \E t \in Callers :
       \/ /\ reads[t] < MaxReads
          /\ reads' = [reads EXCEPT ![t] = @ + 1]
          /\ Start(t)
       \/ Step(t)

Spec == Init /\ [][Next]_vars

\* One caller reads the properties one after the other, as often as it likes.
NextSeq ==
  \/ Construct
  \/ Start(1) /\ UNCHANGED reads
  \/ Step(1)

SeqSpec == Init /\ [][NextSeq]_vars

\* The constructor alone, over every call in CtorArgs and every environment.
CtorSpec == Init /\ [][Construct]_vars


\* ------------------------------------------------------------------ claims

\* The constructor has run (it returned or it raised).
Constructed == phase # "new"

Injected == args.channel # None

BothCredentials == args.credentials # "None" /\ args.credentials_file # "None"

MtlsGiven == TruthyStr(args.api_mtls_endpoint)

\* C1 (SeqSpec): whatever reads came before, every accessor has returned at
\* most one callable, the one stored in self._stubs, and unary_unary has
\* been called at most once for it: a second read returns the first read's
\* object.
C1_AccessorCached ==
  \A op \in Operations :
    /\ unaryCalls[op] <= 1
    /\ Cardinality(returned[op]) <= 1
    /\ returned[op] # {} =>
         op \in DOMAIN self_stubs /\ returned[op] = {self_stubs[op]}

\* C1's case: an accessor that has already returned its callable is being
\* read again and is about to return.
C1_Witness ==
  \E op \in Operations :
    returned[op] # {} /\ cur[1] = op /\ pc[1] = "ret"

\* C2 as stated (CtorSpec): with both credentials and a credentials file the
\* constructor always raises DuplicateCredentialArgs.
C2_Original ==
  (Constructed /\ BothCredentials) =>
    (phase = "failed" /\ error = "DuplicateCredentialArgs")

\* C2 amended (CtorSpec): with both and no injected channel the constructor
\* always raises: DuplicateCredentialArgs, or, with a mutual-TLS endpoint and
\* no client_cert_source, the MutualTLSChannelError of the default SSL
\* credentials, which are assembled first.  With an injected channel the
\* credentials are dropped and DuplicateCredentialArgs is never raised.
C2_DuplicateCredentials ==
  (Constructed /\ BothCredentials) =>
    /\ ~Injected =>
         /\ phase = "failed"
         /\ \/ error = "DuplicateCredentialArgs"
            \/ /\ error = "MutualTLSChannelError"
               /\ MtlsGiven
               /\ args.client_cert_source = "None"
    /\ Injected => error # "DuplicateCredentialArgs"

\* C2's case: both were supplied without a channel and the constructor
\* raised DuplicateCredentialArgs from the channel builder.
C2_Witness ==
  /\ BothCredentials /\ ~Injected /\ MtlsGiven
  /\ phase = "failed" /\ error = "DuplicateCredentialArgs"
  /\ Len(createLog) = 1

C4_HostIs(host) ==
  LET e == args.api_mtls_endpoint[1]
  IN  /\ host # args.host
      /\ (\E i \in 1..Len(e) : e[i] = ":") => host = e
      /\ (\A i \in 1..Len(e) : e[i] # ":") =>
           /\ Len(host) = Len(e) + 2
           /\ SubSeq(host, 1, Len(e)) = e
           /\ host[Len(e) + 1] = ":" /\ host[Len(e) + 2] = "443"

\* C4 (CtorSpec): without an injected channel and with a mutual-TLS endpoint,
\* the host handed to create_channel, and to the base constructor when it is
\* reached, is the endpoint with ":443" appended if it holds no ":" and the
\* endpoint unmodified if it does; the caller's host argument is overridden.
C4_MtlsHost ==
  (Constructed /\ ~Injected /\ MtlsGiven) =>
    /\ \A i \in 1..Len(createLog) : C4_HostIs(createLog[i].host)
    /\ \A i \in 1..Len(baseLog) : C4_HostIs(baseLog[i].host)

\* C4's case: an endpoint without a port was given, the channel was built for
\* it and the base constructor was reached.
C4_Witness ==
  /\ ~Injected /\ MtlsGiven /\ ~HasColon(args.api_mtls_endpoint[1])
  /\ phase = "ready"
  /\ Len(createLog) = 1 /\ Len(baseLog) = 1

\* The words of an accessor's name, split at "_".
C5_Words(op) ==
  CASE op = "list_approval_requests" -> <<"list", "approval", "requests">>
    [] op = "get_approval_request" -> <<"get", "approval", "request">>
    [] op = "approve_approval_request" -> <<"approve", "approval", "request">>
    [] op = "dismiss_approval_request" -> <<"dismiss", "approval", "request">>
    [] op = "get_access_approval_settings" -> <<"get", "access", "approval", "settings">>
    [] op = "update_access_approval_settings" -> <<"update", "access", "approval", "settings">>
    [] op = "delete_access_approval_settings" -> <<"delete", "access", "approval", "settings">>

\* A word with its first letter in upper case.
C5_Capitalize(w) ==
  CASE w = "list" -> "List"
    [] w = "get" -> "Get"
    [] w = "approve" -> "Approve"
    [] w = "dismiss" -> "Dismiss"
    [] w = "update" -> "Update"
    [] w = "delete" -> "Delete"
    [] w = "access" -> "Access"
    [] w = "approval" -> "Approval"
    [] w = "request" -> "Request"
    [] w = "requests" -> "Requests"
    [] w = "settings" -> "Settings"

\* Every entry's path is /google.cloud.accessapproval.v1.AccessApproval/
\* followed by its own accessor's name in camel case, and no two entries
\* share a path.
C5_PathsFormedAndDistinct ==
  /\ \A op \in DOMAIN self_stubs :
       self_stubs[op].path =
         <<"/", "google.cloud.accessapproval.v1", ".", "AccessApproval", "/">> \o
         [i \in 1..Len(C5_Words(op)) |-> C5_Capitalize(C5_Words(op)[i])]
  /\ \A op1, op2 \in DOMAIN self_stubs :
       self_stubs[op1].path = self_stubs[op2].path => op1 = op2

\* C5 as stated (SeqSpec): the dispatch entries are six, each with its own
\* well-formed path.
C5_Original ==
  C5_PathsFormedAndDistinct /\ Cardinality(DOMAIN self_stubs) <= 6

\* C5 amended (SeqSpec): the dispatch entries are up to seven, one per
\* accessor, each with its own well-formed path.
C5_MethodPaths ==
  C5_PathsFormedAndDistinct /\ Cardinality(DOMAIN self_stubs) <= 7

\* C5's case: every accessor has been read and the table is full.
C5_Witness == Cardinality(DOMAIN self_stubs) = 7

\* C6 (SeqSpec): without an injected channel, create_channel has run at most
\* once, every channel the property returned is a created channel, all of
\* them are one object, that object is still self._grpc_channel, and every
\* stub is bound to it.
C6_ChannelCached ==
  (phase = "ready" /\ ~Injected) =>
    /\ Len(createLog) <= 1
    /\ Cardinality(chanReturned) <= 1
    /\ \A c \in chanReturned :
         c.id \in 1..Len(createLog) /\ self_grpc_channel = Some(c)
    /\ \A op \in DOMAIN self_stubs :
         self_grpc_channel = Some(self_stubs[op].channel)

\* C6's case: the channel was created lazily, the property has returned it
\* once and a second read of the property is about to return.
C6_Witness ==
  /\ ~Injected /\ ~MtlsGiven
  /\ chanReturned # {}
  /\ cur[1] = "grpc_channel" /\ pc[1] = "chanret"

\* C7 as stated (CtorSpec): with no channel, no credentials and no
\* credentials file, every ambient lookup the constructor makes asks for the
\* caller's scopes, or for the default scopes when the caller gave none.
C7_AmbientScopes ==
  (Constructed /\ ~Injected
     /\ args.credentials = "None" /\ args.credentials_file = "None") =>
    \A i \in 1..Len(authLog) : authLog[i].scopes = ScopesOr(args.scopes)

\* A create_channel call with the inputs of the constructor's own call: the
\* transport's host and credentials, and the caller's credentials file,
\* scopes and quota project.
C8_CtorInputs(call) ==
  /\ call.host = self_host
  /\ call.credentials = self_credentials
  /\ call.credentials_file = args.credentials_file
  /\ call.scopes = ScopesOr(args.scopes)
  /\ call.quota_project_id = args.quota_project_id

\* C8 as stated (SeqSpec): without an injected channel create_channel runs
\* once, at construction or at the first read of the property, and gets the
\* same inputs either way.
C8_Original ==
  (phase = "ready" /\ ~Injected) =>
    /\ Len(createLog) <= 1
    /\ self_grpc_channel # None => Len(createLog) = 1
    /\ \A i \in 1..Len(createLog) : C8_CtorInputs(createLog[i])

\* C8 amended (SeqSpec): without an injected channel create_channel runs at
\* most once, and has run exactly when the channel exists: at construction
\* for a mutual-TLS endpoint, with the constructor's inputs and SSL
\* credentials; otherwise at the first read of the property, with
\* self._host and self._credentials and nothing else (no credentials file,
\* the default scopes, no quota project, no SSL credentials).
C8_BuilderRunsOnce ==
  (phase = "ready" /\ ~Injected) =>
    /\ Len(createLog) <= 1
    /\ self_grpc_channel # None <=> Len(createLog) = 1
    /\ MtlsGiven =>
         /\ Len(createLog) = 1
         /\ C8_CtorInputs(createLog[1])
         /\ createLog[1].ssl_credentials =
              IF args.client_cert_source # "None" THEN "client_cert" ELSE "default_ssl"
    /\ ~MtlsGiven =>
         \A i \in 1..Len(createLog) :
           createLog[i] = [ host |-> self_host,
                            credentials |-> self_credentials,
                            credentials_file |-> "None",
                            scopes |-> AUTH_SCOPES,
                            quota_project_id |-> "None",
                            ssl_credentials |-> "None" ]

\* C8's case: the caller gave scopes and a quota project, the channel was
\* created at the first read of the property, and a later read is about to
\* return it.
C8_Witness ==
  /\ ~Injected /\ ~MtlsGiven
  /\ args.scopes # None /\ args.quota_project_id # "None"
  /\ Len(createLog) = 1
  /\ chanReturned # {}
  /\ cur[1] = "grpc_channel" /\ pc[1] = "chanret"

\* C9 as stated (Spec): however the callers' reads interleave, at most one
\* channel has been created for the transport and the table holds at most
\* one entry per accessor.
C9_OneChannel ==
  phase = "ready" =>
    /\ Len(createLog) + (IF Injected THEN 1 ELSE 0) <= 1
    /\ DOMAIN self_stubs \subseteq Operations

\* The callers that found op missing and have not stored their stub yet.
C10_Binding(op) ==
  {t \in Callers : cur[t] = op /\ pc[t] \in {"chan", "create", "chanret", "bind"}}

\* C10 as stated (Spec): an entry, once in the table, is never removed or
\* replaced, and unary_unary runs once per accessor.
C10_Original ==
  [][\A op \in DOMAIN self_stubs :
       /\ op \in DOMAIN self_stubs'
       /\ self_stubs'[op] = self_stubs[op]
       /\ unaryCalls'[op] = 1]_vars

\* C10 amended (Spec): an entry, once in the table, is never removed; it is
\* replaced only by a caller that found it missing before it was stored and
\* was still binding its own stub; and no read that starts once the entry is
\* there joins those callers, so that reads one after the other store each
\* entry once.
C10_OneWay ==
  [][\A op \in DOMAIN self_stubs :
       /\ op \in DOMAIN self_stubs'
       /\ self_stubs'[op] # self_stubs[op] => C10_Binding(op) # {}
       /\ C10_Binding(op)' \subseteq C10_Binding(op)
       /\ unaryCalls'[op] <= NumCallers]_vars

\* C10's case: two callers raced on one accessor, the second store replaced
\* the first, and both reads are over.
C10_Witness ==
  \E op \in DOMAIN self_stubs :
    /\ unaryCalls[op] = 2
    /\ self_stubs[op].id = 2
    /\ Cardinality(returned[op]) = 2
    /\ \A t \in Callers : pc[t] = "idle"

\* The callables of accessor op that any caller can hold or later get: those
\* the accessor has returned and the one now stored in self._stubs.
C11_Seen(op) ==
  returned[op] \cup (IF op \in DOMAIN self_stubs THEN {self_stubs[op]} ELSE {})

\* Two callables between which a caller sees no functional difference: the
\* same channel, method path, serializer and deserializer.
C11_Equal(s1, s2) ==
  /\ s1.channel = s2.channel
  /\ s1.path = s2.path
  /\ s1.request_serializer = s2.request_serializer
  /\ s1.response_deserializer = s2.response_deserializer

\* C11 as stated (Spec): when callers have raced on the first access of an
\* accessor (unary_unary ran more than once for it), every callable returned
\* to any of them and the callable finally stored are bound to the same
\* channel, the same method path and the same serializer and deserializer.
C11_RaceBenign ==
  \A op \in Operations :
    unaryCalls[op] >= 2 =>
      \A s1, s2 \in C11_Seen(op) : C11_Equal(s1, s2)

\* The part of C11 the code keeps (Spec): when the channel exists before any
\* read (it was injected, or created at construction for a mutual-TLS
\* endpoint), racing callers get callables that differ only as objects.
C11_BenignWhenChannelBuilt ==
  \A op \in Operations :
    (unaryCalls[op] >= 2 /\ (Injected \/ MtlsGiven)) =>
      \A s1, s2 \in C11_Seen(op) : C11_Equal(s1, s2)

\* The race on a transport whose channel was built at construction: both
\* callers bound a callable for one accessor and both reads are over.
C11_RaceOnBuiltChannel ==
  \E op \in Operations :
    /\ unaryCalls[op] = 2 /\ (Injected \/ MtlsGiven)
    /\ Cardinality(returned[op]) = 2
    /\ \A t \in Callers : pc[t] = "idle"

\* A create_channel call that carries both a credential handle and a
\* credentials file.
C12_BothHanded(call) ==
  TruthyCred(call.credentials) /\ call.credentials_file # "None"

\* C12 as stated (CtorSpec): unless the caller supplied both credentials and
\* a credentials file, the constructor never hands create_channel both a
\* credential handle and a credentials file, and never raises
\* DuplicateCredentialArgs.
C12_OneSourceToBuilder ==
  (Constructed /\ ~BothCredentials) =>
    /\ \A i \in 1..Len(createLog) : ~C12_BothHanded(createLog[i])
    /\ error # "DuplicateCredentialArgs"

\* The part of C12 the code keeps (CtorSpec): a caller with at most one
\* credential source gets DuplicateCredentialArgs only for a credentials
\* file next to a mutual-TLS endpoint, without an injected channel.
C12_OnlyFileUnderMtls ==
  (Constructed /\ ~BothCredentials /\ error = "DuplicateCredentialArgs") =>
    /\ MtlsGiven /\ ~Injected
    /\ args.credentials = "None" /\ args.credentials_file # "None"
    /\ Len(authLog) = 1 /\ Len(createLog) = 1
    /\ C12_BothHanded(createLog[1])

\* A credentials file alone next to a mutual-TLS endpoint, with ambient
\* credentials discoverable: the constructor is over.
C12_FileUnderMtls ==
  /\ Constructed /\ MtlsGiven /\ ~Injected
  /\ args.credentials = "None" /\ args.credentials_file # "None"
  /\ Len(createLog) = 1

=============================================================================
